---------------------------- MODULE Spec2Model ----------------------------
(***************************************************************************)
(* Model of cdr.py: CdrPrices.load_yahoo_prices and the __main__ driver.   *)
(*                                                                         *)
(* One run of the script: the destination file is cleared, every           *)
(* configured symbol is downloaded through the rate limited session, the   *)
(* frames are concatenated, and the result is written as csv.              *)
(*                                                                         *)
(* Time is counted in whole seconds.  Prices are integers counted in       *)
(* 1/10000 of a currency unit before rounding and in 1/1000 after it.      *)
(***************************************************************************)
EXTENDS Integers, Sequences, FiniteSets, TLC

(* ------------------------------ bounds --------------------------------- *)

\* longest configured symbol list
MaxSyms == 3

\* number of trading days the provider can return inside the lookback window
NumDays == 2

\* most http requests one yf.download call sends through the session
MaxReq == 1

(* --------------------------- program constants ------------------------- *)

\* RequestRate(2, Duration.SECOND * 5): at most 2 requests ...
RequestRateLimit == 2

\* ... per 5 seconds
RequestRatePeriod == 5

\* time.sleep(2)
SleepSeconds == 2

(* ------------------------------ the data -------------------------------- *)

\* symbols the list is configured from (the first entries of cdr.symbols)
Symbols == {"AMD.NE", "AMZN.NE", "AVGO.NE"}

\* the directory of cdr.py and some other directory the script is started from
ScriptDir == "scriptdir"
OtherDir == "otherdir"
Dirs == {ScriptDir, OtherDir}

\* a path that names no file, and a file holding the given rows
NoFile == [exists |-> FALSE, rows |-> <<>>]

File(rows) == [exists |-> TRUE, rows |-> rows]

\* the row a previous run left in a Q.csv
OldRows == << <<"OLD.NE", 1000, <<"0", "1", "/", "0", "1", "/", "2", "0", "2", "4">> >> >>

\* a missing closing price (numpy's nan)
NaN == -1

\* closing prices the provider reports, in 1/10000
Closes == {NaN, 12345}

\* the k-th trading day of the window: 30/01/2024, 31/01/2024, 01/02/2024, ...
Day(k) == IF k <= 2 THEN [year |-> 2024, month |-> 1, day |-> 29 + k]
                    ELSE [year |-> 2024, month |-> 2, day |-> k - 2]

Days == {Day(k) : k \in 1..NumDays}

\* Timestamp order
DateLT(a, b) ==
    \/ a.year < b.year
    \/ a.year = b.year /\ a.month < b.month
    \/ a.year = b.year /\ a.month = b.month /\ a.day < b.day

\* one observation of the frame yf.download returns (index Date, column Close;
\* the Open, High, Low, Adj Close and Volume columns are dropped at once)
Obs == [Date : Days, Close : Closes]

\* the frames the provider can return: the first trading days of the window
\* in ascending date order; the closing price of the latest day may be missing
Series ==
    {s \in UNION {[1..n -> Obs] : n \in 0..NumDays} :
        \A k \in 1..Len(s) :
            /\ s[k].Date = Day(k)
            /\ k < Len(s) => s[k].Close # NaN}

\* all lists of distinct symbols of length at most MaxSyms
SymbolLists ==
    {l \in UNION {[1..n -> Symbols] : n \in 0..MaxSyms} :
        \A a, b \in 1..Len(l) : a # b => l[a] # l[b]}

\* error classes printed by the except branch
DownloadErrors == {"ConnectionError"}
TransformErrors == {"KeyError"}

(* --------------------------- pure functions ----------------------------- *)

Digits == <<"0", "1", "2", "3", "4", "5", "6", "7", "8", "9">>

Digit(n) == Digits[n + 1]

DigitValue(c) == CHOOSE n \in 0..9 : Digits[n + 1] = c

\* Timestamp.strftime("%d/%m/%Y")
Strftime(d) ==
    << Digit(d.day \div 10), Digit(d.day % 10), "/",
       Digit(d.month \div 10), Digit(d.month % 10), "/",
       Digit(d.year \div 1000), Digit((d.year \div 100) % 10),
       Digit((d.year \div 10) % 10), Digit(d.year % 10) >>

\* np.round(x, decimals=3): round half to even; NaN stays NaN
Round3(c) ==
    IF c = NaN THEN NaN
    ELSE LET q == c \div 10
             r == c % 10
         IN  IF r < 5 THEN q
             ELSE IF r > 5 THEN q + 1
             ELSE IF q % 2 = 0 THEN q ELSE q + 1

\* df.dropna(axis=0): the frame without the rows that hold a NaN
DropNa(rows) == SelectSeq(rows, LAMBDA r : r.Close # NaN)

\* pd.DataFrame()
EmptyFrame == [columns |-> {}, rows |-> <<>>]

(* ------------------------- the rate limited session --------------------- *)

\* a session without a limiter lets every request through at once
AdmitUnlimited(sent, t) == t

\* Limiter(RequestRate(2, Duration.SECOND * 5)): the time at which a request
\* that arrives at time t is let through, after the admitted requests in
\* sent.  The request waits while RequestRateLimit admitted requests are
\* younger than RequestRatePeriod.
Admit(sent, t) ==
    IF Len(sent) < RequestRateLimit THEN t
    ELSE LET oldest == sent[Len(sent) - RequestRateLimit + 1]
         IN  IF oldest + RequestRatePeriod > t THEN oldest + RequestRatePeriod ELSE t

\* the admitted requests after one yf.download call sends n more requests
\* through the session, the first of them at time t
RECURSIVE SendAll(_, _, _)
SendAll(sent, t, n) ==
    IF n = 0 THEN sent
    ELSE LET at == Admit(sent, t)
         IN  SendAll(Append(sent, at), at, n - 1)

\* the time when the last of the requests has been sent
LastSent(sent, t) == IF sent = <<>> \/ sent[Len(sent)] < t THEN t ELSE sent[Len(sent)]

(* ------------------------------ the state ------------------------------- *)

VARIABLES
    symbols,      \* self.symbols
    cwd,          \* the working directory of the process
    fs,           \* the file Q.csv of every directory
    pc,           \* the position of the run
    i,            \* the index in symbols of the loop's current symbol
    clock,        \* the time since the run began
    calls,        \* the times of the requests the session sent to the provider
    requested,    \* the symbols yf.download was called with, in call order
    fetched,      \* what each yf.download call and its transform came to, and
                  \* the times the call began and ended
    sleeps,       \* the number of time.sleep(2) calls made
    dfp,          \* the frame dfp
    out           \* the lines printed

vars == <<symbols, cwd, fs, pc, i, clock, calls, requested, fetched, sleeps, dfp, out>>

\* Path(__file__).parent.absolute() / Path(self.quicken_csv_file)
file_csv == ScriptDir

\* the file a relative self.quicken_csv_file names when it is opened
Destination == cwd

Line(msg, arg) == [msg |-> msg, arg |-> arg]

Init ==
    /\ symbols \in SymbolLists
    /\ cwd \in Dirs
    /\ fs \in [Dirs -> {NoFile, File(OldRows)}]
    /\ pc = "start"
    /\ i = 1
    /\ clock = 0
    /\ calls = <<>>
    /\ requested = <<>>
    /\ fetched = <<>>
    /\ sleeps = 0
    /\ dfp = EmptyFrame
    /\ out = <<>>

\* where the loop goes from index k
LoopAt(k) == IF k <= Len(symbols) THEN "loop" ELSE "report"

\* lines 37-53: the session is made, the file is cleared, dfp starts empty
Clear ==
    /\ pc = "start"
    /\ fs' = [fs EXCEPT ![file_csv] = File(<<>>)]
    /\ out' = Append(out, Line("Clearing data from", file_csv))
    /\ dfp' = EmptyFrame
    /\ calls' = <<>>
    /\ i' = 1
    /\ pc' = LoopAt(1)
    /\ UNCHANGED <<symbols, cwd, clock, requested, fetched, sleeps>>

\* lines 57-60 applied to the frame of one symbol
Transform(symbol, series) ==
    LET withSymbol == [k \in 1..Len(series) |->
                          [Date |-> series[k].Date, Close |-> series[k].Close,
                           Symbol |-> symbol]]
        dropped == DropNa(withSymbol)    \* line 60: the result is not kept
    IN  withSymbol

\* pd.concat([df, dfp]): the new frame goes in front
ConcatInFront(frame, rows) ==
    [columns |-> frame.columns \cup {"Date", "Close", "Symbol"},
     rows |-> rows \o frame.rows]

\* pd.concat([dfp, df])
Concat(frame, rows) ==
    [columns |-> frame.columns \cup {"Date", "Close", "Symbol"},
     rows |-> frame.rows \o rows]

\* line 56: yf.download sends n requests through the session (none when the
\* cache answers); the call takes as long as the limiter holds them back
Download(n) ==
    /\ calls' = SendAll(calls, clock, n)
    /\ clock' = LastSent(calls', clock)
    /\ requested' = Append(requested, symbols[i])

\* the outcome of the try block of one symbol
Result(ok, series) == [ok |-> ok, series |-> series, at |-> clock, done |-> clock']

\* lines 63-65
Except(kind) ==
    /\ out' = out \o << Line("class", kind),
                        Line("Error Retrieving Data for", symbols[i]) >>
    /\ fetched' = Append(fetched, Result(FALSE, <<>>))
    /\ dfp' = dfp

\* lines 56-62: the download and the transform succeed
DownloadOk ==
    /\ pc = "loop"
    /\ \E n \in 0..MaxReq, series \in Series :
          /\ Download(n)
          /\ dfp' = Concat(dfp, Transform(symbols[i], series))
          /\ fetched' = Append(fetched, Result(TRUE, series))
          /\ out' = Append(out, Line("Loaded Prices for", symbols[i]))
    /\ pc' = "sleep"
    /\ UNCHANGED <<symbols, cwd, fs, i, sleeps>>

\* line 56 raises and nothing catches it
DownloadFailAborts ==
    /\ pc = "loop"
    /\ \E n \in 0..MaxReq, kind \in DownloadErrors :
          /\ Download(n)
          /\ Except(kind)
    /\ pc' = "crashed"
    /\ UNCHANGED <<symbols, cwd, fs, i, sleeps>>

\* line 56 raises, lines 63-65
DownloadFail ==
    /\ pc = "loop"
    /\ \E n \in 0..MaxReq, kind \in DownloadErrors :
          /\ Download(n)
          /\ Except(kind)
    /\ pc' = "sleep"
    /\ UNCHANGED <<symbols, cwd, fs, i, sleeps>>

\* line 56 returns, one of lines 57-61 raises, lines 63-65
TransformFail ==
    /\ pc = "loop"
    /\ \E n \in 0..MaxReq, kind \in TransformErrors :
          /\ Download(n)
          /\ Except(kind)
    /\ pc' = "sleep"
    /\ UNCHANGED <<symbols, cwd, fs, i, sleeps>>

\* the sleep inside the try block: a skipped symbol is not followed by a delay
SleepAfterSuccessOnly ==
    /\ pc = "sleep"
    /\ clock' = IF fetched[Len(fetched)].ok THEN clock + SleepSeconds ELSE clock
    /\ sleeps' = IF fetched[Len(fetched)].ok THEN sleeps + 1 ELSE sleeps
    /\ i' = i + 1
    /\ pc' = LoopAt(i + 1)
    /\ UNCHANGED <<symbols, cwd, fs, calls, requested, fetched, dfp, out>>

\* line 66, and the loop moves to the next symbol
Sleep ==
    /\ pc = "sleep"
    /\ clock' = clock + SleepSeconds
    /\ sleeps' = sleeps + 1
    /\ i' = i + 1
    /\ pc' = LoopAt(i + 1)
    /\ UNCHANGED <<symbols, cwd, fs, calls, requested, fetched, dfp, out>>

\* lines 68-70 applied to one row: the csv fields Symbol, Close, Date
CsvRow(r) == <<r.Symbol, Round3(r.Close), Strftime(r.Date)>>

\* line 67
Report == Line("Loaded Prices from Yahoo for", Len(symbols))

\* lines 67-72: dfp has the three columns and is saved
Save ==
    /\ pc = "report"
    /\ {"Symbol", "Close", "Date"} \subseteq dfp.columns
    /\ fs' = [fs EXCEPT ![Destination] =
                 File([k \in 1..Len(dfp.rows) |-> CsvRow(dfp.rows[k])])]
    /\ out' = out \o << Report, Line("Finished Saving CDR_prices to", "Q.csv") >>
    /\ pc' = "returned"
    /\ UNCHANGED <<symbols, cwd, i, clock, calls, requested, fetched, sleeps, dfp>>

\* lines 67-68: dfp is still pd.DataFrame(), the column selection raises KeyError
SaveKeyError ==
    /\ pc = "report"
    /\ ~({"Symbol", "Close", "Date"} \subseteq dfp.columns)
    /\ out' = Append(out, Report)
    /\ pc' = "crashed"
    /\ UNCHANGED <<symbols, cwd, fs, i, clock, calls, requested, fetched, sleeps, dfp>>

\* lines 83-84
Exit ==
    /\ pc = "returned"
    /\ out' = Append(out, Line("Finished at", clock))
    /\ pc' = "exited"
    /\ UNCHANGED <<symbols, cwd, fs, i, clock, calls, requested, fetched, sleeps, dfp>>

Next ==
    \/ Clear
    \/ DownloadOk
    \/ DownloadFail
    \/ TransformFail
    \/ Sleep
    \/ Save
    \/ SaveKeyError
    \/ Exit

Spec == Init /\ [][Next]_vars

(* ------------------------- notions of the claims ------------------------ *)

\* the loop is over
AfterLoop == pc \in {"report", "returned", "crashed", "exited"}

\* the final write has been made
Written == pc \in {"returned", "exited"}

\* the run has ended
Ended == pc \in {"crashed", "exited"}

\* the rows of the file the final write goes to
Output == fs[Destination].rows

\* the number of symbols whose retrieval succeeded
Succeeded == Cardinality({k \in DOMAIN fetched : fetched[k].ok})

\* the observations of a series whose closing price is not missing
NonMissing(series) == Len(SelectSeq(series, LAMBDA o : o.Close # NaN))

\* the non-missing observations of the first k symbols that succeeded
RECURSIVE NonMissingUpTo(_)
NonMissingUpTo(k) ==
    IF k = 0 THEN 0
    ELSE NonMissingUpTo(k - 1)
         + (IF fetched[k].ok THEN NonMissing(fetched[k].series) ELSE 0)

\* the position of a symbol in the configured list
Pos(symbol) == CHOOSE k \in 1..Len(symbols) : symbols[k] = symbol

\* the date a DD/MM/YYYY field states
Strptime(f) ==
    [day |-> 10 * DigitValue(f[1]) + DigitValue(f[2]),
     month |-> 10 * DigitValue(f[4]) + DigitValue(f[5]),
     year |-> 1000 * DigitValue(f[7]) + 100 * DigitValue(f[8])
              + 10 * DigitValue(f[9]) + DigitValue(f[10])]

\* symbol k's failure was printed
Logged(k) ==
    \E j \in 1..(Len(out) - 1) :
        /\ out[j].msg = "class"
        /\ out[j + 1].msg = "Error Retrieving Data for"
        /\ out[j + 1].arg = symbols[k]

(* -------------------------------- claims -------------------------------- *)

\* C1: a symbol's failure never aborts the run: the symbols are requested in
\* list order, every failure is printed, and when the loop is over every
\* configured symbol has been requested, whichever of them failed.
C1_FailureIsolated ==
    /\ Len(requested) <= Len(symbols)
    /\ requested = SubSeq(symbols, 1, Len(requested))
    /\ \A k \in DOMAIN fetched : ~fetched[k].ok => Logged(k)
    /\ AfterLoop => requested = symbols

\* a symbol is requested after two earlier symbols failed
C1_Witness ==
    /\ Len(requested) = 3
    /\ ~fetched[1].ok
    /\ ~fetched[2].ok

\* C2: the number of rows written equals the number of observations with a
\* closing price of the symbols that succeeded.
C2_RowCount == Written => Len(Output) = NonMissingUpTo(Len(fetched))

\* C3: when every configured symbol has failed and the run has ended, the
\* output file exists and is empty.
C3_Truncation ==
    (Ended /\ symbols # <<>> /\ Succeeded = 0) => fs[Destination] = File(<<>>)

\* C4: the run never ends in an unhandled error.
C4_NoCrash == pc # "crashed"

\* C5: the rows of the output are grouped by symbol in the order of the
\* configured list and, within one symbol, ascend by date.
C5_Ordering ==
    Written =>
        \A a, b \in DOMAIN Output :
            a < b =>
                /\ Output[a][1] \in {symbols[k] : k \in DOMAIN symbols}
                /\ Pos(Output[a][1]) <= Pos(Output[b][1])
                /\ Output[a][1] = Output[b][1] =>
                       DateLT(Strptime(Output[a][3]), Strptime(Output[b][3]))

\* the output holds two rows of one symbol and then rows of a later symbol,
\* and a symbol between them failed
C5_Witness ==
    /\ Written
    /\ Len(Output) >= 3
    /\ Output[1][1] = Output[2][1]
    /\ Output[2][1] # Output[3][1]
    /\ Succeeded < Len(symbols)

\* C6: an empty symbol list ends in a normal exit with an empty output file,
\* a report of 0 of 0 symbols, and no request to the provider.
C6_EmptyList ==
    (symbols = <<>> /\ Ended) =>
        /\ pc = "exited"
        /\ fs[Destination] = File(<<>>)
        /\ calls = <<>>

\* C7: no window of 5 seconds holds more than 2 requests to the provider.
C7_RateCeiling ==
    \A t \in 0..clock :
        Cardinality({k \in DOMAIN calls : t <= calls[k] /\ calls[k] < t + 5}) <= 2

\* the limiter held a request back: the third request of a window waited
C7_Witness ==
    \E k \in DOMAIN calls :
        /\ k + 2 \in DOMAIN calls
        /\ calls[k + 2] = calls[k] + 5
        /\ \E j \in DOMAIN fetched : fetched[j].at < calls[k + 2] /\ fetched[j].done = calls[k + 2]

\* C8: the count the final report states is the number of symbols whose
\* retrieval succeeded.
C8_ReportCount ==
    \A j \in DOMAIN out :
        out[j].msg = "Loaded Prices from Yahoo for" => out[j].arg = Succeeded

\* C9: every configured symbol is requested once, and every symbol, loaded or
\* skipped, is followed by one delay of 2 seconds before the next request.
C9_OnceThenDelay ==
    /\ \A a, b \in DOMAIN requested : a # b => requested[a] # requested[b]
    /\ AfterLoop =>
          \A k \in DOMAIN symbols :
              Cardinality({a \in DOMAIN requested : requested[a] = symbols[k]}) = 1
    /\ sleeps = IF pc = "sleep" THEN Len(fetched) - 1 ELSE Len(fetched)
    /\ \A k \in DOMAIN fetched :
          k + 1 \in DOMAIN fetched => fetched[k + 1].at >= fetched[k].done + 2
    /\ \A c \in DOMAIN calls :
          \E k \in DOMAIN fetched : fetched[k].at <= calls[c] /\ calls[c] <= fetched[k].done

\* a symbol was skipped, the delay followed, and the next symbol was requested
C9_Witness ==
    /\ Len(fetched) >= 2
    /\ ~fetched[1].ok
    /\ fetched[2].ok
    /\ fetched[2].at = fetched[1].done + 2

\* C10: when the run has ended, no file but the destination of the final
\* write has been emptied, and the destination does not hold the rows of the
\* previous run.
C10_SameFile ==
    Ended =>
        /\ \A d \in Dirs \ {Destination} : fs[d] # File(<<>>)
        /\ fs[Destination] # File(OldRows)

=============================================================================
